---- MODULE Spec2Model ----
(***************************************************************************)
(* State-machine model of the helpdesk client frontend/src/App.tsx: the    *)
(* React state of the App component, its asynchronous handlers (each split *)
(* at its await into the part that issues the request and the part that    *)
(* runs when the response resolves), and the responses in flight.          *)
(***************************************************************************)
EXTENDS Integers, Sequences, FiniteSets, Bags, TLC

(* ---------------------------------------------------------------- bounds *)

\* Requests that may be awaiting their response at the same time.
MaxInflight == 2

(* ------------------------------------------------------------ input sets *)

\* The ticket ids of the backend: the tickets that exist when the page is
\* opened, and the ids it gives the tickets created afterwards.
Tickets == {1, 2}
Preexisting == {1}

(* ------------------------------------------------------------ JS values *)

\* null / undefined of a state cell
NoTicket == 0
NoThread == [none |-> TRUE]
NoError == "null"
NullUpn == "null"
EmptyRec == [f \in {} |-> 0]

\* the texts the follow-up textarea is given: empty, whitespace only, a message
EmptyText == <<>>
Texts == {EmptyText, <<" ", " ", " ">>, <<" ", "h", "i">>}

\* the instants new Date() can return
Times == {"now", "later"}

\* the conversation and the advisory panel a thread payload carries: a first
\* answer with a suggested action, or a longer conversation with none
Msg1 == [id |-> "m1", role |-> "agent", content |-> "c1", timestamp |-> "t1"]
Msg2 == [id |-> "m2", role |-> "user", content |-> "c2", timestamp |-> "t2"]
Act1 == [title |-> "a1", steps |-> <<"s1">>]
Snapshots ==
    { [thread |-> <<Msg1>>, suggested_actions |-> <<Act1>>],
      [thread |-> <<Msg1, Msg2>>, suggested_actions |-> <<>>] }

ErrHistory == "Failed to load ticket history."
ErrSubmit == "Failed to submit ticket."
ErrThread == "Failed to load ticket thread."
ErrFollowup == "Failed to send follow-up."
ErrClose == "Failed to close ticket."

(* ------------------------------------------------------------- helpers *)

\* String.prototype.trim on a text given as a sequence of characters
RECURSIVE TrimStart(_)
TrimStart(s) ==
    IF s # <<>> /\ Head(s) = " " THEN TrimStart(Tail(s)) ELSE s

RECURSIVE TrimEnd(_)
TrimEnd(s) ==
    IF s # <<>> /\ s[Len(s)] = " " THEN TrimEnd(SubSeq(s, 1, Len(s) - 1)) ELSE s

TrimNothing(s) == s

Trim(s) == TrimEnd(TrimStart(s))

OrStrAlwaysDefault(data, f, dflt) == dflt

\* x.f || dflt for a string field: absent, null and "" are falsy
OrStr(data, f, dflt) ==
    IF f \in DOMAIN data /\ data[f] # "" THEN data[f] ELSE dflt

OrArrKeepsAbsent(data, f) ==
    IF f \in DOMAIN data THEN data[f] ELSE <<[undefined |-> TRUE]>>

\* x.f || [] for an array field: absent and null are falsy, an array is not
OrArr(data, f) ==
    IF f \in DOMAIN data THEN data[f] ELSE <<>>

\* x.f ?? dflt: only absent and null take the default
Nullish(data, f, dflt) ==
    IF f \in DOMAIN data THEN data[f] ELSE dflt

\* the property f of data, kept as it is (undefined when data has none)
Copy(data, f) ==
    IF f \in DOMAIN data THEN [g \in {f} |-> data[f]] ELSE EmptyRec

normalizeThread(data, now) ==
    Copy(data, "ticket_id") @@ Copy(data, "subject") @@
    [ description        |-> OrStr(data, "description", ""),
      severity           |-> OrStr(data, "severity", "medium"),
      user_upn           |-> Nullish(data, "user_upn", NullUpn),
      created_at         |-> OrStr(data, "created_at", now),
      status             |-> Nullish(data, "status", "open"),
      thread             |-> OrArr(data, "thread"),
      suggested_actions  |-> OrArr(data, "suggested_actions"),
      followup_questions |-> OrArr(data, "followup_questions"),
      similar_incidents  |-> OrArr(data, "similar_incidents") ]

(* --------------------------------------------------------------- state *)

VARIABLES
    history,            \* useState<TicketHistoryItem[]>([])
    selectedTicketId,   \* useState<string | null>(null)
    thread,             \* useState<TicketThreadResponse | null>(null)
    loadingHistory,     \* useState(false)
    loadingThread,      \* useState(false)
    submitting,         \* useState(false)
    followup,           \* useState("")
    error,              \* useState<string | null>(null)
    mounted,            \* whether the mount effect has run
    inflight,           \* bag of the fetches awaited and not yet resolved
    backend,            \* the backend's tickets: "none", "open" or "closed"
    backendSendsStatus  \* whether this backend's payloads carry a status field

vars == <<history, selectedTicketId, thread, loadingHistory, loadingThread,
          submitting, followup, error, mounted, inflight, backend,
          backendSendsStatus>>

(* ------------------------------------------------------- the collaborator *)

\* An awaited fetch: what was asked, for which ticket, whether it will resolve
\* with res.ok, and the ticket's status when the backend answered.
Req(kind, ticket, ok, status) ==
    [kind |-> kind, ticket |-> ticket, ok |-> ok,
     status |-> IF ok THEN status ELSE "-"]

Send(r) == inflight' = inflight (+) SetToBag({r})
Resolve(r) == inflight' = inflight (-) SetToBag({r})
Pending == BagToSet(inflight)
CanSend == BagCardinality(inflight) < MaxInflight

StatusField(st) ==
    IF backendSendsStatus THEN [status |-> st] ELSE EmptyRec

\* res.json() of POST /tickets, GET /tickets/{id}/thread, POST .../followup and
\* POST .../close: the ticket asked for, with its status when it is on the wire
ServerThread(t, st, snap) ==
    [ ticket_id          |-> t,
      subject            |-> "subject",
      description        |-> "description",
      severity           |-> "high",
      created_at         |-> "t0",
      thread             |-> snap.thread,
      suggested_actions  |-> snap.suggested_actions,
      followup_questions |-> <<>>,
      similar_incidents  |-> <<>> ] @@ StatusField(st)

\* the payloads an awaited response can resolve with: the one the backend has
\* put on the wire for it, or else the ticket's thread in either snapshot
ServerThreads(r) ==
    IF "data" \in DOMAIN r
    THEN {r.data}
    ELSE { ServerThread(r.ticket, r.status, snap) : snap \in Snapshots }

ServerHistoryItem(t) ==
    [ ticket_id  |-> t,
      id         |-> t,
      subject    |-> "subject",
      severity   |-> "high",
      created_at |-> "t0" ] @@ StatusField(backend[t])

Max(S) == CHOOSE m \in S : \A x \in S : x <= m

\* res.json() of GET /tickets: the tickets of S, most recent first
RECURSIVE ServerList(_)
ServerList(S) ==
    IF S = {} THEN <<>>
    ELSE <<ServerHistoryItem(Max(S))>> \o ServerList(S \ {Max(S)})

Existing == {t \in Tickets : backend[t] # "none"}
Unused == Tickets \ Existing

\* The list is answered at some moment between the mount and its resolution:
\* it holds the tickets that existed before, and any created since.
ServerLists ==
    { ServerList(S) : S \in {X \in SUBSET Existing : Preexisting \subseteq X} }

(* ---------------------------------------------------------------- Init *)

Init ==
    /\ history = <<>>
    /\ selectedTicketId = NoTicket
    /\ thread = NoThread
    /\ loadingHistory = FALSE
    /\ loadingThread = FALSE
    /\ submitting = FALSE
    /\ followup = EmptyText
    /\ error = NoError
    /\ mounted = FALSE
    /\ inflight = EmptyBag
    /\ backend \in {b \in [Tickets -> {"none", "open", "closed"}] :
                      \A t \in Tickets : b[t] = "none" <=> t \notin Preexisting}
    /\ backendSendsStatus \in BOOLEAN

(* --------------------------------------------- loadHistory (mount effect) *)

loadHistory ==
    /\ ~mounted
    /\ mounted' = TRUE
    /\ loadingHistory' = TRUE
    /\ error' = NoError
    /\ \E ok \in BOOLEAN : Send(Req("list", NoTicket, ok, "-"))
    /\ UNCHANGED <<history, selectedTicketId, thread, loadingThread, submitting,
                   followup, backend, backendSendsStatus>>

loadHistoryThen(r) ==
    /\ r.kind = "list" /\ r.ok
    /\ Resolve(r)
    /\ \E data \in ServerLists : history' = data
    /\ loadingHistory' = FALSE
    /\ UNCHANGED <<selectedTicketId, thread, loadingThread, submitting, followup,
                   error, mounted, backend, backendSendsStatus>>

loadHistoryCatch(r) ==
    /\ r.kind = "list" /\ ~r.ok
    /\ Resolve(r)
    /\ error' = ErrHistory
    /\ loadingHistory' = FALSE
    /\ UNCHANGED <<history, selectedTicketId, thread, loadingThread, submitting,
                   followup, mounted, backend, backendSendsStatus>>

(* ---------------------------------------------------- handleSubmitTicket *)

\* The form's own cells (subject, description, userUpn, severity) only feed the
\* request body; they are left out of the state.
newHistoryItem(data) ==
    [ ticket_id |-> data.ticket_id,
      id        |-> data.ticket_id,
      status    |-> Nullish(data, "status", "open") ]
    @@ Copy(data, "subject") @@ Copy(data, "severity")
    @@ Copy(data, "user_upn") @@ Copy(data, "created_at")

appendHistoryItem(item, prev) == prev \o <<item>>

\* setHistory((prev) => [newHistoryItem, ...(prev || [])])
prependHistoryItem(item, prev) == <<item>> \o prev

\* The submit button is disabled while submitting. The backend gives a ticket it
\* creates the next unused id; a request that fails creates nothing.
handleSubmitTicket ==
    /\ mounted /\ ~submitting /\ CanSend
    /\ submitting' = TRUE
    /\ error' = NoError
    /\ \/ /\ Unused # {}
          /\ LET t == CHOOSE x \in Unused : \A y \in Unused : x <= y
             IN /\ backend' = [backend EXCEPT ![t] = "open"]
                /\ Send(Req("create", t, TRUE, "open"))
       \/ /\ Send(Req("create", NoTicket, FALSE, "-"))
          /\ backend' = backend
    /\ UNCHANGED <<history, selectedTicketId, thread, loadingHistory,
                   loadingThread, followup, mounted, backendSendsStatus>>

handleSubmitTicketThen(r) ==
    /\ r.kind = "create" /\ r.ok
    /\ Resolve(r)
    /\ \E data \in ServerThreads(r), now \in Times :
          /\ history' = prependHistoryItem(newHistoryItem(data), history)
          /\ selectedTicketId' = normalizeThread(data, now).ticket_id
          /\ thread' = normalizeThread(data, now)
    /\ submitting' = FALSE
    /\ UNCHANGED <<loadingHistory, loadingThread, followup, error, mounted,
                   backend, backendSendsStatus>>

handleSubmitTicketCatchKeepsSubmitting(r) ==
    /\ r.kind = "create" /\ ~r.ok
    /\ Resolve(r)
    /\ error' = ErrSubmit
    /\ UNCHANGED <<history, selectedTicketId, thread, loadingHistory,
                   loadingThread, submitting, followup, mounted, backend,
                   backendSendsStatus>>

handleSubmitTicketCatch(r) ==
    /\ r.kind = "create" /\ ~r.ok
    /\ Resolve(r)
    /\ error' = ErrSubmit
    /\ submitting' = FALSE
    /\ UNCHANGED <<history, selectedTicketId, thread, loadingHistory,
                   loadingThread, followup, mounted, backend, backendSendsStatus>>

(* ---------------------------------------------------- handleSelectTicket *)

\* onClick of a history item: only a ticket of the list can be selected
handleSelectTicket(ticketId) ==
    /\ mounted /\ CanSend
    /\ \E i \in 1..Len(history) : history[i].ticket_id = ticketId
    /\ selectedTicketId' = ticketId
    /\ loadingThread' = TRUE
    /\ error' = NoError
    /\ \E ok \in BOOLEAN : Send(Req("load", ticketId, ok, backend[ticketId]))
    /\ UNCHANGED <<history, thread, loadingHistory, submitting, followup,
                   mounted, backend, backendSendsStatus>>

handleSelectTicketThen(r) ==
    /\ r.kind = "load" /\ r.ok
    /\ Resolve(r)
    /\ \E data \in ServerThreads(r), now \in Times :
          thread' = normalizeThread(data, now)
    /\ loadingThread' = FALSE
    /\ UNCHANGED <<history, selectedTicketId, loadingHistory, submitting,
                   followup, error, mounted, backend, backendSendsStatus>>

handleSelectTicketCatchKeepsThread(r) ==
    /\ r.kind = "load" /\ ~r.ok
    /\ Resolve(r)
    /\ error' = ErrThread
    /\ loadingThread' = FALSE
    /\ UNCHANGED <<history, selectedTicketId, thread, loadingHistory, submitting,
                   followup, mounted, backend, backendSendsStatus>>

handleSelectTicketCatch(r) ==
    /\ r.kind = "load" /\ ~r.ok
    /\ Resolve(r)
    /\ error' = ErrThread
    /\ thread' = NoThread
    /\ loadingThread' = FALSE
    /\ UNCHANGED <<history, selectedTicketId, loadingHistory, submitting,
                   followup, mounted, backend, backendSendsStatus>>

(* ---------------------------------------------------- handleSendFollowup *)

\* onChange of the follow-up textarea, which is rendered when a thread is shown
setFollowup(text) ==
    /\ mounted /\ thread # NoThread
    /\ text # followup
    /\ followup' = text
    /\ UNCHANGED <<history, selectedTicketId, thread, loadingHistory,
                   loadingThread, submitting, error, mounted, inflight, backend,
                   backendSendsStatus>>

\* disabled={loadingThread || !followup.trim()} of the Send Follow-up button
SendFollowupDisabled == loadingThread \/ Trim(followup) = EmptyText

\* The button is rendered with the thread; a click runs the handler, which
\* returns at once without a selected ticket or with blank text.
handleSendFollowup ==
    /\ mounted /\ CanSend
    /\ thread # NoThread /\ ~SendFollowupDisabled
    /\ ~(selectedTicketId = NoTicket \/ Trim(followup) = EmptyText)
    /\ loadingThread' = TRUE
    /\ error' = NoError
    /\ \E ok \in BOOLEAN :
          Send(Req("followup", selectedTicketId, ok, backend[selectedTicketId]))
    /\ UNCHANGED <<history, selectedTicketId, thread, loadingHistory, submitting,
                   followup, mounted, backend, backendSendsStatus>>

handleSendFollowupThenKeepsAdvisory(r) ==
    /\ r.kind = "followup" /\ r.ok
    /\ Resolve(r)
    /\ \E data \in ServerThreads(r), now \in Times :
          thread' = IF thread # NoThread /\ "suggested_actions" \notin DOMAIN data
                    THEN [normalizeThread(data, now) EXCEPT
                            !.suggested_actions = thread.suggested_actions]
                    ELSE normalizeThread(data, now)
    /\ followup' = EmptyText
    /\ loadingThread' = FALSE
    /\ UNCHANGED <<history, selectedTicketId, loadingHistory, submitting, error,
                   mounted, backend, backendSendsStatus>>

handleSendFollowupThen(r) ==
    /\ r.kind = "followup" /\ r.ok
    /\ Resolve(r)
    /\ \E data \in ServerThreads(r), now \in Times :
          thread' = normalizeThread(data, now)
    /\ followup' = EmptyText
    /\ loadingThread' = FALSE
    /\ UNCHANGED <<history, selectedTicketId, loadingHistory, submitting, error,
                   mounted, backend, backendSendsStatus>>

handleSendFollowupCatchClearsThread(r) ==
    /\ r.kind = "followup" /\ ~r.ok
    /\ Resolve(r)
    /\ error' = ErrFollowup
    /\ thread' = NoThread
    /\ loadingThread' = FALSE
    /\ UNCHANGED <<history, selectedTicketId, loadingHistory, submitting,
                   followup, mounted, backend, backendSendsStatus>>

handleSendFollowupCatch(r) ==
    /\ r.kind = "followup" /\ ~r.ok
    /\ Resolve(r)
    /\ error' = ErrFollowup
    /\ loadingThread' = FALSE
    /\ UNCHANGED <<history, selectedTicketId, thread, loadingHistory, submitting,
                   followup, mounted, backend, backendSendsStatus>>

(* ----------------------------------------------------- handleCloseTicket *)

\* {thread.status !== "closed" && <button onClick={handleCloseTicket}>}
CloseButtonShown == thread # NoThread /\ thread.status # "closed"

\* The request names selectedTicketId; a close that succeeds leaves the ticket
\* closed on the backend.
handleCloseTicket ==
    /\ mounted /\ CanSend
    /\ CloseButtonShown
    /\ selectedTicketId # NoTicket
    /\ loadingThread' = TRUE
    /\ error' = NoError
    /\ \E ok \in BOOLEAN :
          /\ Send(Req("close", selectedTicketId, ok, "closed"))
          /\ backend' = IF ok THEN [backend EXCEPT ![selectedTicketId] = "closed"]
                        ELSE backend
    /\ UNCHANGED <<history, selectedTicketId, thread, loadingHistory, submitting,
                   followup, mounted, backendSendsStatus>>

\* h.ticket_id === selectedTicketId ? { ...h, status: t.status ?? "closed" } : h
\* with the selectedTicketId the handler was called with
closeHistoryItem(h, ticketId, t) ==
    IF h.ticket_id = ticketId
    THEN [status |-> Nullish(t, "status", "closed")] @@ h
    ELSE h

handleCloseTicketThen(r) ==
    /\ r.kind = "close" /\ r.ok
    /\ Resolve(r)
    /\ \E data \in ServerThreads(r), now \in Times :
          LET t == normalizeThread(data, now)
          IN /\ thread' = t
             /\ history' = [i \in 1..Len(history) |->
                              closeHistoryItem(history[i], r.ticket, t)]
    /\ loadingThread' = FALSE
    /\ UNCHANGED <<selectedTicketId, loadingHistory, submitting, followup, error,
                   mounted, backend, backendSendsStatus>>

handleCloseTicketCatchRetries(r) ==
    /\ r.kind = "close" /\ ~r.ok
    /\ inflight' = (inflight (-) SetToBag({r}))
                       (+) SetToBag({Req("close", r.ticket, TRUE, "closed")})
    /\ error' = ErrClose
    /\ loadingThread' = FALSE
    /\ UNCHANGED <<history, selectedTicketId, thread, loadingHistory, submitting,
                   followup, mounted, backend, backendSendsStatus>>

handleCloseTicketCatch(r) ==
    /\ r.kind = "close" /\ ~r.ok
    /\ Resolve(r)
    /\ error' = ErrClose
    /\ loadingThread' = FALSE
    /\ UNCHANGED <<history, selectedTicketId, thread, loadingHistory, submitting,
                   followup, mounted, backend, backendSendsStatus>>

(* ------------------------------------------------------------------ Next *)

Next ==
    \/ loadHistory
    \/ \E r \in Pending : loadHistoryThen(r)
    \/ \E r \in Pending : loadHistoryCatch(r)
    \/ handleSubmitTicket
    \/ \E r \in Pending : handleSubmitTicketThen(r)
    \/ \E r \in Pending : handleSubmitTicketCatch(r)
    \/ \E ticketId \in Tickets : handleSelectTicket(ticketId)
    \/ \E r \in Pending : handleSelectTicketThen(r)
    \/ \E r \in Pending : handleSelectTicketCatch(r)
    \/ \E text \in Texts : setFollowup(text)
    \/ handleSendFollowup
    \/ \E r \in Pending : handleSendFollowupThen(r)
    \/ \E r \in Pending : handleSendFollowupCatch(r)
    \/ handleCloseTicket
    \/ \E r \in Pending : handleCloseTicketThen(r)
    \/ \E r \in Pending : handleCloseTicketCatch(r)

Spec == Init /\ [][Next]_vars

(* ------------------------------------------------------------- fairness *)

\* what the user does: submit the form, click a history item, type in the
\* follow-up box, click Send Follow-up, click Close Ticket
UserAction ==
    \/ handleSubmitTicket
    \/ \E ticketId \in Tickets : handleSelectTicket(ticketId)
    \/ \E text \in Texts : setFollowup(text)
    \/ handleSendFollowup
    \/ handleCloseTicket

\* an awaited response resolves and its handler runs on
ResponseResolves ==
    \E r \in Pending :
        \/ loadHistoryThen(r) \/ loadHistoryCatch(r)
        \/ handleSubmitTicketThen(r) \/ handleSubmitTicketCatch(r)
        \/ handleSelectTicketThen(r) \/ handleSelectTicketCatch(r)
        \/ handleSendFollowupThen(r) \/ handleSendFollowupCatch(r)
        \/ handleCloseTicketThen(r) \/ handleCloseTicketCatch(r)

\* The mount effect runs, and a request that is awaited resolves in the end.
SpecLive == Spec /\ WF_vars(loadHistory) /\ WF_vars(ResponseResolves)

(* ------------------------------------------ a backend whose payloads drift *)

\* data with the fields of F left out
Without(data, F) == [f \in DOMAIN data \ F |-> data[f]]

\* a suggested action given as a bare string instead of {title, steps}
BareAction == [string |-> "Restart service"]

\* a similar incident; the similarity score is written in hundredths
Incident(id, score) ==
    [ incident_id      |-> id,
      subject          |-> "subject",
      description      |-> "description",
      similarity_score |-> score ]

ScoreRange == 0..100
Severities == {"low", "medium", "high"}

\* the first message with its time under created_at instead of timestamp
MsgCreatedAt ==
    [id |-> "m1", role |-> "agent", content |-> "c1", created_at |-> "t1"]

\* values a payload may carry in place of the usual ones, or next to them
Overrides ==
    { EmptyRec,
      [severity |-> "", description |-> "", created_at |-> ""],
      [severity |-> "urgent"],
      [suggested_actions |-> <<BareAction>>],
      [followup_questions |-> <<[text |-> "q1"]>>],
      [similar_incidents |-> <<Incident("i1", 20), Incident("i2", 90)>>],
      [similar_incidents |-> <<Incident("i1", 150)>>],
      [thread |-> <<MsgCreatedAt>>],
      [messages |-> <<Msg2>>],
      [thread |-> <<>>, messages |-> <<Msg2>>] }

\* fields a payload may lack (absent or null)
Omissions ==
    { {},
      {"ticket_id"},
      {"subject"},
      {"description", "severity", "user_upn", "created_at", "status"},
      {"suggested_actions"},
      {"thread", "suggested_actions", "followup_questions", "similar_incidents"} }

\* the conversation and the advisory panel the drifting payloads start from
FirstAnswer == [thread |-> <<Msg1>>, suggested_actions |-> <<Act1>>]

\* the payloads the backend may answer a request with: the ticket's thread
\* with some values replaced, with some fields left out, or with its messages
\* under the key messages instead of thread
WirePayloads(r) ==
    { o @@ ServerThread(r.ticket, r.status, FirstAnswer) : o \in Overrides }
    \cup
    { Without(ServerThread(r.ticket, r.status, FirstAnswer), F) :
        F \in Omissions }
    \cup
    { [messages |-> <<Msg2>>]
        @@ Without(ServerThread(r.ticket, r.status, FirstAnswer), {"thread"}) }

\* The backend puts a payload on the wire for a request that will succeed; one
\* such payload is on the wire at a time.
backendResponds(r, data) ==
    /\ r.ok /\ r.kind \in {"load", "followup"}
    /\ \A x \in Pending : "data" \notin DOMAIN x
    /\ inflight' = (inflight (-) SetToBag({r})) (+) SetToBag({[data |-> data] @@ r})
    /\ UNCHANGED <<history, selectedTicketId, thread, loadingHistory,
                   loadingThread, submitting, followup, error, mounted, backend,
                   backendSendsStatus>>

\* the page once its history has loaded, nothing selected yet
InitDrift ==
    /\ mounted = TRUE
    /\ backend \in {b \in [Tickets -> {"none", "open", "closed"}] :
                      \A t \in Tickets : b[t] = "none" <=> t \notin Preexisting}
    /\ backendSendsStatus \in BOOLEAN
    /\ history = ServerList(Preexisting)
    /\ selectedTicketId = NoTicket
    /\ thread = NoThread
    /\ loadingHistory = FALSE
    /\ loadingThread = FALSE
    /\ submitting = FALSE
    /\ followup = EmptyText
    /\ error = NoError
    /\ inflight = EmptyBag

NextDrift ==
    \/ \E ticketId \in Tickets : handleSelectTicket(ticketId)
    \/ \E r \in Pending : handleSelectTicketThen(r)
    \/ \E r \in Pending : handleSelectTicketCatch(r)
    \/ \E text \in Texts : setFollowup(text)
    \/ handleSendFollowup
    \/ \E r \in Pending : handleSendFollowupThen(r)
    \/ \E r \in Pending : handleSendFollowupCatch(r)
    \/ \E r \in Pending : \E data \in WirePayloads(r) : backendResponds(r, data)

SpecDrift == InitDrift /\ [][NextDrift]_vars

(* ------------------------------------------------- reading a transition *)

\* how many requests of a kind for a ticket a bag of requests holds
Copies(bag, kind, t) ==
    BagCardinality([r \in {x \in DOMAIN bag : x.kind = kind /\ x.ticket = t}
                      |-> bag[r]])

\* this step sends a request of the kind for the ticket
Issued(kind, t) == Copies(inflight', kind, t) > Copies(inflight, kind, t)

\* this step is the one in which the awaited response r resolves
Resolved(r) == r \in Pending /\ inflight' = inflight (-) SetToBag({r})

IsBlank(text) == \A i \in 1..Len(text) : text[i] = " "

\* the history has an entry for the ticket
InHistory(t) == \E i \in 1..Len(history) : history[i].ticket_id = t

\* s is the beginning of t
IsPrefix(s, t) == Len(s) <= Len(t) /\ SubSeq(t, 1, Len(s)) = s

\* the optional collections of a thread payload, and the advisory ones
Collections ==
    {"thread", "suggested_actions", "followup_questions", "similar_incidents"}
Advisory == Collections \ {"thread"}

\* the payload has ticket_id and subject
HasIdentity(data) == {"ticket_id", "subject"} \subseteq DOMAIN data

\* the payload carries a severity outside the enum or a score outside [0, 1]
OutOfRange(data) ==
    \/ "severity" \in DOMAIN data /\ data.severity \notin Severities \cup {""}
    \/ /\ "similar_incidents" \in DOMAIN data
       /\ \E i \in 1..Len(data.similar_incidents) :
             data.similar_incidents[i].similarity_score \notin ScoreRange

\* the message list of a payload by the key rule: thread unless it is absent
\* or empty, and messages then
PreferredMessages(data) ==
    IF "thread" \in DOMAIN data /\ data.thread # <<>> THEN data.thread
    ELSE IF "messages" \in DOMAIN data THEN data.messages
    ELSE <<>>

\* the message with its time under timestamp, and the payload with every
\* message so
TimestampKeyedMsg(m) ==
    IF "timestamp" \in DOMAIN m THEN m
    ELSE [timestamp |-> m.created_at] @@ Without(m, {"created_at"})

TimestampKeyed(data) ==
    IF "thread" \in DOMAIN data
    THEN [data EXCEPT !.thread = [i \in 1..Len(@) |-> TimestampKeyedMsg(@[i])]]
    ELSE data

\* the history lists the ticket as closed
ListedClosed(t) ==
    \E i \in 1..Len(history) :
        /\ history[i].ticket_id = t
        /\ "status" \in DOMAIN history[i]
        /\ history[i].status = "closed"

(* ---------------------------------------------------------------- claims *)

\* C1: a successful load whose ticket is no longer the selected one is
\* discarded: when it resolves after the selected ticket's own thread has
\* arrived and become the active thread, the active thread stays as it is.
C1_StaleLoadDiscarded ==
    [][\A r \in Pending :
          ( /\ r.kind = "load" /\ r.ok /\ Resolved(r)
            /\ r.ticket # selectedTicketId
            /\ ~loadingThread
            /\ thread # NoThread
            /\ thread.ticket_id = selectedTicketId )
          => thread' = thread]_vars

\* C2: in every reachable state at most one follow-up request is in flight for
\* each ticket.
C2_OneFollowupPerTicket ==
    \A t \in Tickets : Copies(inflight, "followup", t) <= 1

\* C3: a failed load whose ticket is no longer the selected one is dropped
\* silently: it neither alters the active thread nor sets an error.
C3_StaleLoadFailureSilent ==
    [][\A r \in Pending :
          ( /\ r.kind = "load" /\ ~r.ok /\ Resolved(r)
            /\ r.ticket # selectedTicketId )
          => (thread' = thread /\ error' = error)]_vars

\* C4: a successful creation puts exactly one new entry at position 0 of the
\* history, with the response's ticket_id and status open, keeps the earlier
\* entries in their order behind it, and makes the created ticket the selected
\* ticket and its normalized thread the active thread.
C4_CreatePrepends ==
    [][\A r \in Pending :
          (r.kind = "create" /\ r.ok /\ Resolved(r))
          => /\ Len(history') = Len(history) + 1
             /\ history'[1].ticket_id = r.ticket
             /\ history'[1].status = "open"
             /\ Tail(history') = history
             /\ selectedTicketId' = r.ticket
             /\ thread' # NoThread
             /\ thread'.ticket_id = r.ticket
             /\ thread'.status = "open"
             /\ \E snap \in Snapshots :
                   /\ thread'.thread = snap.thread
                   /\ thread'.suggested_actions = snap.suggested_actions]_vars

\* a created ticket heads a history that already held an entry, and is the
\* selected ticket and the active thread
C4_Witness ==
    /\ Len(history) >= 2
    /\ history[1].ticket_id \notin Preexisting
    /\ "status" \in DOMAIN history[1]
    /\ history[1].status = "open"
    /\ selectedTicketId = history[1].ticket_id
    /\ thread # NoThread
    /\ thread.ticket_id = history[1].ticket_id
    /\ ~submitting

\* C5: after a successful close of ticket T the history entries of T have
\* status closed, every other entry is unchanged, and the active thread's
\* status is closed, whatever the close response carries.
C5_CloseMarksClosed ==
    [][\A r \in Pending :
          (r.kind = "close" /\ r.ok /\ Resolved(r))
          => /\ Len(history') = Len(history)
             /\ \A i \in 1..Len(history) :
                   IF history[i].ticket_id = r.ticket
                   THEN history'[i].status = "closed"
                   ELSE history'[i] = history[i]
             /\ thread' # NoThread
             /\ thread'.status = "closed"]_vars

\* C6: no close request is sent for a ticket that is closed (closed on the
\* backend and listed closed in the history, with no close of it still pending).
C6_CloseOnlyWhenOpen ==
    [][\A t \in Tickets :
          Issued("close", t)
          => ~( /\ backend[t] = "closed"
                /\ ListedClosed(t)
                /\ Copies(inflight, "close", t) = 0 )]_vars

\* C7: no follow-up request is sent for a ticket whose thread is shown closed.
C7_NoFollowupWhenClosed ==
    [][\A t \in Tickets :
          Issued("followup", t)
          => ~(thread # NoThread /\ thread.ticket_id = t
               /\ thread.status = "closed")]_vars

\* C8: while the follow-up text is empty or whitespace only, no follow-up
\* request is sent.
C8_BlankFollowupSendsNothing ==
    [][IsBlank(followup) => \A t \in Tickets : ~Issued("followup", t)]_vars

\* whitespace-only text in the box of a loaded thread, with nothing else in the
\* way of sending
C8_Witness ==
    /\ followup # EmptyText /\ IsBlank(followup)
    /\ thread # NoThread /\ thread.status = "open"
    /\ selectedTicketId = thread.ticket_id
    /\ ~loadingThread
    /\ CanSend

\* C9: when a follow-up request fails, the active thread stays exactly as it
\* was and the follow-up error is set.
C9_FollowupFailureKeepsThread ==
    [][\A r \in Pending :
          (r.kind = "followup" /\ ~r.ok /\ Resolved(r))
          => (thread' = thread /\ error' = ErrFollowup)]_vars

\* a follow-up has failed and the thread is still shown
C9_Witness ==
    /\ error = ErrFollowup
    /\ thread # NoThread
    /\ followup # EmptyText

\* C10: when the load of the selected ticket fails, the active thread becomes
\* null and the load error is set.
C10_LoadFailureClearsThread ==
    [][\A r \in Pending :
          ( /\ r.kind = "load" /\ ~r.ok /\ Resolved(r)
            /\ r.ticket = selectedTicketId )
          => (thread' = NoThread /\ error' = ErrThread)]_vars

\* the load of the selected ticket has failed and no thread is shown
C10_Witness ==
    /\ error = ErrThread
    /\ thread = NoThread
    /\ selectedTicketId # NoTicket
    /\ ~loadingThread

\* C11: after a successful follow-up on the ticket of the active thread, the
\* messages the thread held before are all still there, in their order, and
\* anything new comes after them.
C11_MessagesAppendOnly ==
    [][\A r \in Pending :
          ( /\ r.kind = "followup" /\ r.ok /\ Resolved(r)
            /\ thread # NoThread
            /\ thread.ticket_id = r.ticket )
          => /\ thread' # NoThread
             /\ IsPrefix(thread.thread, thread'.thread)]_vars

\* C13: an entry of the history stays in the history: a ticket listed before a
\* step is listed after it.
C13_HistoryKeepsEntries ==
    [][\A t \in Tickets : InHistory(t) => InHistory(t)']_vars

\* C14: when a create or a close request fails, the history, the selected
\* ticket and the active thread stay as they were, the handler's error is set,
\* and the failed request leaves the requests in flight with nothing sent in
\* its place.
C14_FailureRetainsState ==
    [][\A r \in Pending :
          ( /\ r.kind \in {"create", "close"} /\ ~r.ok
            /\ CopiesIn(r, inflight') < CopiesIn(r, inflight) )
          => /\ history' = history
             /\ selectedTicketId' = selectedTicketId
             /\ thread' = thread
             /\ error' = (IF r.kind = "create" THEN ErrSubmit ELSE ErrClose)
             /\ inflight' = inflight (-) SetToBag({r})]_vars

\* a close has failed: the thread is still shown open, its ticket selected and
\* listed, and nothing is in flight
C14_Witness ==
    /\ error = ErrClose
    /\ thread # NoThread /\ thread.status = "open"
    /\ selectedTicketId = thread.ticket_id
    /\ InHistory(selectedTicketId)
    /\ inflight = EmptyBag

C15_IdentityNeverAbsent ==
    thread # NoThread => HasIdentity(thread)

\* C16: when the load's payload carries a severity outside low/medium/high or
\* a similarity score outside [0, 1], the active thread ends empty (null).
C16_OutOfRangeRejected ==
    [][\A r \in Pending :
          ( /\ r.kind = "load" /\ r.ok /\ Resolved(r)
            /\ "data" \in DOMAIN r
            /\ OutOfRange(r.data) )
          => thread' = NoThread]_vars

\* C17: when an applied payload lacks one of the optional collections, the
\* active thread has an empty sequence for it; the four collections are always
\* there.
C17_AbsentCollectionsEmpty ==
    [][\A r \in Pending :
          (r.ok /\ Resolved(r) /\ "data" \in DOMAIN r)
          => /\ thread' # NoThread
             /\ \A f \in Collections :
                   /\ f \in DOMAIN thread'
                   /\ f \notin DOMAIN r.data => thread'[f] = <<>>]_vars

\* the thread shown came from a payload with none of the four collections
C17_Witness ==
    /\ thread # NoThread
    /\ \A f \in Collections : thread[f] = <<>>

C19_BareActionsStructured ==
    thread # NoThread
    => \A i \in 1..Len(thread.suggested_actions) :
          /\ "steps" \in DOMAIN thread.suggested_actions[i]
          /\ Len(thread.suggested_actions[i].steps) >= 1

\* C20: the similar incidents of the active thread are in descending order of
\* similarity score.
C20_IncidentsSortedByScore ==
    thread # NoThread
    => \A i \in 1..Len(thread.similar_incidents) :
          \A j \in i..Len(thread.similar_incidents) :
             thread.similar_incidents[i].similarity_score
                >= thread.similar_incidents[j].similarity_score

\* C21: the messages of the thread made from a payload are the payload's
\* thread list, or its messages list when thread is absent or empty.
C21_ContainerKeyFallback ==
    [][\A r \in Pending :
          (r.ok /\ Resolved(r) /\ "data" \in DOMAIN r)
          => /\ thread' # NoThread
             /\ thread'.thread = PreferredMessages(r.data)]_vars

\* C22: a payload whose messages carry their time under created_at gives the
\* same message sequence as the payload that carries it under timestamp.
C22_TimestampKeyCanonical ==
    [][\A r \in Pending :
          (r.ok /\ Resolved(r) /\ "data" \in DOMAIN r)
          => /\ thread' # NoThread
             /\ \A now \in Times :
                   thread'.thread
                      = normalizeThread(TimestampKeyed(r.data), now).thread]_vars

\* C23: while a select, follow-up or close request is in flight, loadingThread
\* is true.
C23_LoadingWhilePending ==
    (\E r \in Pending : r.kind \in {"load", "followup", "close"})
    => loadingThread

\* C24: when a thread is shown and nothing is in flight, the thread is the
\* selected ticket's.
C24_ThreadIsSelectedTicket ==
    (thread # NoThread /\ inflight = EmptyBag)
    => thread.ticket_id = selectedTicketId

\* C25: no two entries of the history have the same ticket_id.
C25_HistoryIdsUnique ==
    \A i \in 1..Len(history) : \A j \in 1..Len(history) :
        history[i].ticket_id = history[j].ticket_id => i = j

\* no loading flag is set
AllIdle == ~loadingThread /\ ~loadingHistory /\ ~submitting

\* C26: if the user's actions come to an end, then from some moment on
\* loadingThread, loadingHistory and submitting are all false for good.
C26_NoStuckLoading ==
    <>[][~UserAction]_vars => <>[]AllIdle

\* every request has resolved, one of them in failure, and no flag is set
C26_Witness ==
    /\ mounted
    /\ inflight = EmptyBag
    /\ thread # NoThread
    /\ error # NoError
    /\ AllIdle

====
